---- MODULE Spec2Model ----
(***************************************************************************)
(* Model of iitmsat/cylindrical-polar.py: a 2D TMz FDTD solver on a        *)
(* cylindrical polar grid.  The script builds the coefficient arrays once  *)
(* and then runs `for t in range(1, MAXTIME)`, each cycle updating H_r,    *)
(* H_phi, E_z, adding the source to one E_z cell and, every fifth step,    *)
(* plotting the three fields.                                              *)
(*                                                                         *)
(* Numbers.  The arrays hold binary floating point numbers.  A float is    *)
(* modelled as m * 2^e with an odd mantissa of at most Prec bits, every    *)
(* operation rounding to nearest-even as IEEE arithmetic does, with inf    *)
(* and nan as numpy produces them on a division by zero.  Prec is smaller  *)
(* than the 53 bits of a double, the exponent is unbounded and -0.0 is     *)
(* not told from 0.0 (the two compare equal in the program as well).       *)
(*                                                                         *)
(* Arrays.  A 2D array is a function from the 0-based row index to a       *)
(* function from the 0-based column index, and numpy's slices, hstack and  *)
(* elementwise operators are operators on such functions, so that the      *)
(* update steps read as they do in the source.                             *)
(***************************************************************************)
EXTENDS Integers, FiniteSets, Sequences, TLC

(* Grid and run length, scaled down from 100 x 180 cells and 1000 steps.   *)
SIZE_R == 4
SIZE_PHI == 4
MAXTIME == 7
(* Mantissa width of the modelled floats.                                  *)
Prec == 12

VARIABLES
    EPSILON0, MU0,                  \* medium constants (lines 37-38)
    delta_r, delta_phi, delta_t,    \* space and time steps (lines 31-33)
    profile, src,                   \* source profile and source cell (line 134)
    h_phi,                          \* scale factor array (line 59)
    cH_r_H, cH_r_E_z,               \* coefficient arrays (lines 70-93)
    cH_phi_H, cH_phi_E_z,
    cE_z_E, cE_z_H_phi, cE_z_H_r,
    E_z_h_phi_fwd_avg, E_z_h_phi_bwd_avg,
    E_z, H_r, H_phi,                \* the field arrays (lines 23-27)
    t,                              \* the loop variable (line 98)
    pc,                             \* position in the script
    plotted                         \* what the last plot was given (lines 142-166)

config == <<EPSILON0, MU0, delta_r, delta_phi, delta_t, profile, src>>
coefficients == <<h_phi, cH_r_H, cH_r_E_z, cH_phi_H, cH_phi_E_z, cE_z_E,
                  cE_z_H_phi, cE_z_H_r, E_z_h_phi_fwd_avg, E_z_h_phi_bwd_avg>>
vars == <<config, coefficients, E_z, H_r, H_phi, t, pc, plotted>>

----------------------------------------------------------------------------
(* Floating point numbers                                                  *)

Abs(n) == IF n < 0 THEN -n ELSE n
Sgn(n) == IF n < 0 THEN -1 ELSE IF n = 0 THEN 0 ELSE 1
Min(a, b) == IF a < b THEN a ELSE b

RECURSIVE BitLen(_)
BitLen(n) == IF n = 0 THEN 0 ELSE 1 + BitLen(n \div 2)

Fin(m, e) == [k |-> "fin", m |-> m, e |-> e]
Zero == Fin(0, 0)
One == Fin(1, 0)
NaN == [k |-> "nan", m |-> 0, e |-> 0]
Inf(s) == [k |-> "inf", m |-> s, e |-> 0]

(* The canonical form of m * 2^e: the mantissa odd, or zero.               *)
RECURSIVE Norm(_, _)
Norm(m, e) ==
    IF m = 0 THEN Zero
    ELSE IF m % 2 = 0 THEN Norm(m \div 2, e + 1)
    ELSE Fin(m, e)

(* m * 2^e rounded to Prec bits, ties to even.                             *)
Round(m, e) ==
    LET a == Abs(m)
        s == BitLen(a) - Prec
    IN  IF s <= 0 THEN Norm(m, e)
        ELSE LET q    == a \div (2 ^ s)
                 rem  == a % (2 ^ s)
                 half == 2 ^ (s - 1)
                 up   == rem > half \/ (rem = half /\ q % 2 = 1)
             IN  Norm(Sgn(m) * (IF up THEN q + 1 ELSE q), e + s)

FromInt(n) == Round(n, 0)

FNeg(a) == [a EXCEPT !.m = -a.m]

FMul(a, b) ==
    IF a.k = "nan" \/ b.k = "nan" THEN NaN
    ELSE IF a.k = "inf" \/ b.k = "inf"
         THEN IF a.m = 0 \/ b.m = 0 THEN NaN ELSE Inf(Sgn(a.m) * Sgn(b.m))
    ELSE Round(a.m * b.m, a.e + b.e)

(* The position of the leading bit of a finite non-zero float.             *)
Top(a) == a.e + BitLen(Abs(a.m))

FAdd(a, b) ==
    IF a.k = "nan" \/ b.k = "nan" THEN NaN
    ELSE IF a.k = "inf" /\ b.k = "inf" THEN (IF a.m = b.m THEN a ELSE NaN)
    ELSE IF a.k = "inf" THEN a
    ELSE IF b.k = "inf" THEN b
    ELSE IF a.m = 0 THEN b
    ELSE IF b.m = 0 THEN a
    ELSE IF Top(a) - Top(b) > Prec + 2 THEN a
    ELSE IF Top(b) - Top(a) > Prec + 2 THEN b
    ELSE LET e == Min(a.e, b.e)
         IN  Round(a.m * 2 ^ (a.e - e) + b.m * 2 ^ (b.e - e), e)

FSub(a, b) == FAdd(a, FNeg(b))

FDiv(a, b) ==
    IF a.k = "nan" \/ b.k = "nan" THEN NaN
    ELSE IF a.k = "inf"
         THEN IF b.k = "inf" THEN NaN
              ELSE Inf(a.m * (IF b.m < 0 THEN -1 ELSE 1))
    ELSE IF b.k = "inf" THEN Zero
    ELSE IF b.m = 0 THEN (IF a.m = 0 THEN NaN ELSE Inf(Sgn(a.m)))
    ELSE IF a.m = 0 THEN Zero
    ELSE LET k == Prec + 2 + BitLen(Abs(b.m)) - BitLen(Abs(a.m))
             n == Abs(a.m) * 2 ^ k
             q == n \div Abs(b.m)
             sticky == IF n % Abs(b.m) = 0 THEN 0 ELSE 1
         IN  Round(Sgn(a.m) * Sgn(b.m) * (2 * q + sticky), a.e - b.e - k - 1)

(* exp(x) by its power series, summed until the sum no longer changes;     *)
(* exp of a negative argument is the reciprocal of exp(-x).                *)
RECURSIVE ExpTerms(_, _, _, _)
ExpTerms(x, k, term, sum) ==
    LET next == FDiv(FMul(term, x), FromInt(k))
        s2   == FAdd(sum, next)
    IN  IF s2 = sum THEN sum ELSE ExpTerms(x, k + 1, next, s2)

FExp(x) ==
    IF x.m < 0 THEN FDiv(One, ExpTerms(FNeg(x), 1, One, One))
    ELSE ExpTerms(x, 1, One, One)

----------------------------------------------------------------------------
(* Arrays                                                                  *)

Idx(n) == 0 .. (n - 1)
NRows(A) == Cardinality(DOMAIN A)
NCols(A) == Cardinality(DOMAIN A[0])

(* sp.ones((nr, nc)) *)
ones(nr, nc) == [i \in Idx(nr) |-> [j \in Idx(nc) |-> One]]

(* sp.ones written where sp.zeros is meant.                                *)
zeros_AsOnes(nr, nc) == ones(nr, nc)

(* sp.zeros((nr, nc)) *)
zeros(nr, nc) == [i \in Idx(nr) |-> [j \in Idx(nc) |-> Zero]]

(* A[lo:hi, :] and A[:, lo:hi]                                             *)
Rows(A, lo, hi) == [i \in Idx(hi - lo) |-> A[i + lo]]
Cols(A, lo, hi) == [i \in DOMAIN A |-> [j \in Idx(hi - lo) |-> A[i][j + lo]]]

(* sp.hstack((A, B))                                                       *)
hstack(A, B) ==
    [i \in DOMAIN A |->
        [j \in Idx(NCols(A) + NCols(B)) |->
            IF j < NCols(A) THEN A[i][j] ELSE B[i][j - NCols(A)]]]

(* Elementwise A + B, A - B, A * B, and the scalar forms A * s, A / s,     *)
(* s / A.                                                                  *)
Add(A, B) == [i \in DOMAIN A |-> [j \in DOMAIN A[i] |-> FAdd(A[i][j], B[i][j])]]
Sub(A, B) == [i \in DOMAIN A |-> [j \in DOMAIN A[i] |-> FSub(A[i][j], B[i][j])]]
Mul(A, B) == [i \in DOMAIN A |-> [j \in DOMAIN A[i] |-> FMul(A[i][j], B[i][j])]]
Times(A, s) == [i \in DOMAIN A |-> [j \in DOMAIN A[i] |-> FMul(A[i][j], s)]]
Over(A, s) == [i \in DOMAIN A |-> [j \in DOMAIN A[i] |-> FDiv(A[i][j], s)]]
Under(s, A) == [i \in DOMAIN A |-> [j \in DOMAIN A[i] |-> FDiv(s, A[i][j])]]

(* Off by one towards the axis, and towards the outer edge.                *)
AssignRowsInner(A, lo, hi, B) ==
    [i \in DOMAIN A |-> IF lo - 1 <= i /\ i < hi - 1 THEN B[i - lo + 1] ELSE A[i]]
AssignRowsOuter(A, lo, hi, B) ==
    [i \in DOMAIN A |-> IF lo < i /\ i <= hi THEN B[i - lo - 1] ELSE A[i]]

(* A[lo:hi, :] = B                                                         *)
AssignRows(A, lo, hi, B) ==
    [i \in DOMAIN A |-> IF lo <= i /\ i < hi THEN B[i - lo] ELSE A[i]]

----------------------------------------------------------------------------
(* Construction (lines 13-93)                                              *)

(* The radius of every grid point: grid[0] as floats, the row r = 0 set    *)
(* to 0.000001 (lines 44-48).                                              *)
r ==
    [i \in Idx(SIZE_R) |->
        [j \in Idx(SIZE_PHI) |->
            IF i = 0 THEN FDiv(One, FromInt(1000000)) ELSE FromInt(i)]]

epsR == Times(ones(SIZE_R, SIZE_PHI), FromInt(EPSILON0))
muR == Times(ones(SIZE_R, SIZE_PHI), FromInt(MU0))

h_r == ones(SIZE_R, SIZE_PHI)
h_z == ones(SIZE_R, SIZE_PHI)

(* Averages onto the H_r points, the last column wrapping to the first.    *)
H_r_h_phi ==
    hstack(Over(Add(Cols(h_phi, 1, SIZE_PHI), Cols(h_phi, 0, SIZE_PHI - 1)),
                FromInt(2)),
           Over(Add(Cols(h_phi, 0, 1), Cols(h_phi, SIZE_PHI - 1, SIZE_PHI)),
                FromInt(2)))
H_r_muR ==
    hstack(Over(Add(Cols(muR, 1, SIZE_PHI), Cols(muR, 0, SIZE_PHI - 1)),
                FromInt(2)),
           Over(Add(Cols(muR, 0, 1), Cols(muR, SIZE_PHI - 1, SIZE_PHI)),
                FromInt(2)))

(* Averages onto the H_phi points.                                         *)
H_phi_h_r == Over(Add(Rows(h_r, 1, SIZE_R), Rows(h_r, 0, SIZE_R - 1)), FromInt(2))
H_phi_h_z == Over(Add(Rows(h_z, 1, SIZE_R), Rows(h_z, 0, SIZE_R - 1)), FromInt(2))
H_phi_muR == Over(Add(Rows(muR, 1, SIZE_R), Rows(muR, 0, SIZE_R - 1)), FromInt(2))

(* The interior rows used by the E_z update.                               *)
E_z_epsR == Rows(epsR, 1, SIZE_R - 1)
E_z_h_r == Rows(h_r, 1, SIZE_R - 1)
E_z_h_phi == Rows(h_phi, 1, SIZE_R - 1)

(* The source cell of the script, (50, 90) on the 100 x 180 grid: the      *)
(* middle row and the middle column.                                       *)
SourceCell == <<SIZE_R \div 2, SIZE_PHI \div 2>>

(* The configurations of a run.  The script fixes EPSILON0 = MU0 = 1,      *)
(* delta_r = delta_t = 1, delta_phi = 2, the Gaussian profile and the cell *)
(* above; the others are what editing those lines gives.                   *)
Config(e, m, dr, dp, dt, p, s) ==
    [EPSILON0 |-> e, MU0 |-> m, delta_r |-> dr, delta_phi |-> dp,
     delta_t |-> dt, profile |-> p, src |-> s]

ValidConfigs ==
    { Config(1, m, 1, 2, 1, p, s) :
        m \in {1, 2}, p \in {"gaussian", "zero"},
        s \in {SourceCell, <<0, SIZE_PHI \div 2>>} }

AnyConfigs ==
    { Config(e, m, dr, dp, dt, "gaussian", SourceCell) :
        e \in {0, 1}, m \in {-1, 0, 1}, dr \in {0, 1}, dp \in {0, 2, 3},
        dt \in {0, 1} }

Init(configs) ==
    /\ \E c \in configs :
        /\ EPSILON0 = c.EPSILON0
        /\ MU0 = c.MU0
        /\ delta_r = c.delta_r
        /\ delta_phi = c.delta_phi
        /\ delta_t = c.delta_t
        /\ profile = c.profile
        /\ src = c.src
    /\ E_z = zeros(SIZE_R, SIZE_PHI)
    /\ H_r = zeros(SIZE_R, SIZE_PHI)
    /\ H_phi = zeros(SIZE_R - 1, SIZE_PHI)
    /\ h_phi = r
    /\ cH_r_H = ones(SIZE_R, SIZE_PHI)
    /\ cH_r_E_z =
         Under(FromInt(-delta_t),
               Mul(Mul(Times(H_r_muR, FromInt(delta_phi)), H_r_h_phi), h_z))
    /\ cH_phi_H = ones(SIZE_R - 1, SIZE_PHI)
    /\ cH_phi_E_z =
         Under(FromInt(delta_t),
               Mul(Mul(Times(H_phi_muR, FromInt(delta_r)), H_phi_h_r), H_phi_h_z))
    /\ cE_z_E = ones(SIZE_R - 2, SIZE_PHI)
    /\ E_z_h_phi_fwd_avg =
         Over(Add(Rows(h_phi, 2, SIZE_R), Rows(h_phi, 1, SIZE_R - 1)), FromInt(2))
    /\ E_z_h_phi_bwd_avg =
         Over(Add(Rows(h_phi, 1, SIZE_R - 1), Rows(h_phi, 0, SIZE_R - 2)), FromInt(2))
    /\ cE_z_H_phi =
         Under(FromInt(delta_t),
               Mul(Mul(Times(E_z_epsR, FromInt(delta_r)), E_z_h_r), E_z_h_phi))
    /\ cE_z_H_r =
         Under(FromInt(-delta_t),
               Mul(Mul(Times(E_z_epsR, FromInt(delta_phi)), E_z_h_r), E_z_h_phi))
    /\ t = 0
    /\ pc = "for"
    /\ plotted = [t |-> 0, H_r |-> <<>>, H_phi |-> <<>>, E_z |-> <<>>]

----------------------------------------------------------------------------
(* The time-stepping loop (lines 98-166)                                   *)

(* for t in range(1, MAXTIME): the next value of t, or the end of the run. *)
ForNext ==
    /\ pc = "for"
    /\ t + 1 < MAXTIME
    /\ t' = t + 1
    /\ pc' = "H_r"
    /\ UNCHANGED <<config, coefficients, E_z, H_r, H_phi, plotted>>

(* The early exit of the commented-out lines 168-169, at step 3.           *)
ForExitEarly ==
    /\ pc = "for"
    /\ (t = 3 \/ ~(t + 1 < MAXTIME))
    /\ pc' = "done"
    /\ UNCHANGED <<config, coefficients, E_z, H_r, H_phi, t, plotted>>

ForExit ==
    /\ pc = "for"
    /\ ~(t + 1 < MAXTIME)
    /\ pc' = "done"
    /\ UNCHANGED <<config, coefficients, E_z, H_r, H_phi, t, plotted>>

(* The wrapped column put first, as lines 116-118 do for H_r.              *)
delta_E_z_WrapFirst ==
    hstack(Sub(Cols(E_z, 0, 1), Cols(E_z, SIZE_PHI - 1, SIZE_PHI)),
           Sub(Cols(E_z, 1, SIZE_PHI), Cols(E_z, 0, SIZE_PHI - 1)))

(* Lines 103-104: the phi-difference of E_z, the wrapped column last.      *)
delta_E_z ==
    hstack(Sub(Cols(E_z, 1, SIZE_PHI), Cols(E_z, 0, SIZE_PHI - 1)),
           Sub(Cols(E_z, 0, 1), Cols(E_z, SIZE_PHI - 1, SIZE_PHI)))

(* Line 105 *)
UpdateH_r ==
    /\ pc = "H_r"
    /\ H_r' = Add(Mul(cH_r_H, H_r), Mul(cH_r_E_z, delta_E_z))
    /\ pc' = "H_phi"
    /\ UNCHANGED <<config, coefficients, E_z, H_phi, t, plotted>>

(* Line 110 *)
UpdateH_phi ==
    /\ pc = "H_phi"
    /\ H_phi' = Add(Mul(cH_phi_H, H_phi),
                    Mul(cH_phi_E_z,
                        Sub(Rows(E_z, 1, SIZE_R), Rows(E_z, 0, SIZE_R - 1))))
    /\ pc' = "E_z"
    /\ UNCHANGED <<config, coefficients, E_z, H_r, t, plotted>>

(* The wrapped column put last, as lines 103-104 do for E_z.               *)
delta_H_r_WrapLast(Hr) ==
    LET inner == Rows(Hr, 1, SIZE_R - 1)
    IN  hstack(Sub(Cols(inner, 1, SIZE_PHI), Cols(inner, 0, SIZE_PHI - 1)),
               Sub(Cols(inner, 0, 1), Cols(inner, SIZE_PHI - 1, SIZE_PHI)))

(* Lines 116-118: the phi-difference of the interior rows of H_r, the      *)
(* wrapped column first.                                                   *)
delta_H_r(Hr) ==
    LET inner == Rows(Hr, 1, SIZE_R - 1)
    IN  hstack(Sub(Cols(inner, 0, 1), Cols(inner, SIZE_PHI - 1, SIZE_PHI)),
               Sub(Cols(inner, 1, SIZE_PHI), Cols(inner, 0, SIZE_PHI - 1)))

(* Lines 119-123: the new interior rows of E_z.                            *)
NewE_z(Hr_diff, Hphi) ==
    Add(Add(Mul(cE_z_E, Rows(E_z, 1, SIZE_R - 1)),
            Mul(cE_z_H_phi,
                Sub(Mul(E_z_h_phi_fwd_avg, Rows(Hphi, 1, SIZE_R - 1)),
                    Mul(E_z_h_phi_bwd_avg, Rows(Hphi, 0, SIZE_R - 2))))),
        Mul(cE_z_H_r, Hr_diff))

UpdateE_z ==
    /\ pc = "E_z"
    /\ E_z' = AssignRows(E_z, 1, SIZE_R - 1, NewE_z(delta_H_r(H_r), H_phi))
    /\ pc' = "source"
    /\ UNCHANGED <<config, coefficients, H_r, H_phi, t, plotted>>

(* Line 134: sp.exp(-(t-30) * (t-30) / 100.0)                              *)
Gaussian(n) == FExp(FDiv(FromInt((-(n - 30)) * (n - 30)), FromInt(100)))

(* The value the source adds at step n.                                    *)
SourceValue(n) == IF profile = "gaussian" THEN Gaussian(n) ELSE Zero

(* A hard source (= instead of +=), as in the commented-out lines 131 and  *)
(* 138; and the profile sampled one step late.                             *)
SourceHard ==
    /\ pc = "source"
    /\ E_z' = [E_z EXCEPT ![src[1]][src[2]] = SourceValue(t)]
    /\ pc' = "plot"
    /\ UNCHANGED <<config, coefficients, H_r, H_phi, t, plotted>>

SourceNextStep ==
    /\ pc = "source"
    /\ E_z' = [E_z EXCEPT ![src[1]][src[2]] = FAdd(@, SourceValue(t + 1))]
    /\ pc' = "plot"
    /\ UNCHANGED <<config, coefficients, H_r, H_phi, t, plotted>>

(* Line 134: E_z[50, 90] += ...                                            *)
Source ==
    /\ pc = "source"
    /\ E_z' = [E_z EXCEPT ![src[1]][src[2]] = FAdd(@, SourceValue(t))]
    /\ pc' = "plot"
    /\ UNCHANGED <<config, coefficients, H_r, H_phi, t, plotted>>

(* Lines 142-166: every fifth step the three fields, each with its first   *)
(* column appended, are handed to the contour plots.  The Cartesian grid   *)
(* gridx, gridy that goes with them is output only and is not modelled.    *)
Plot ==
    /\ pc = "plot"
    /\ t % 5 = 0
    /\ plotted' = [t |-> t,
                   H_r |-> hstack(H_r, Cols(H_r, 0, 1)),
                   H_phi |-> hstack(H_phi, Cols(H_phi, 0, 1)),
                   E_z |-> hstack(E_z, Cols(E_z, 0, 1))]
    /\ pc' = "for"
    /\ UNCHANGED <<config, coefficients, E_z, H_r, H_phi, t>>

NoPlot ==
    /\ pc = "plot"
    /\ t % 5 # 0
    /\ pc' = "for"
    /\ UNCHANGED <<config, coefficients, E_z, H_r, H_phi, t, plotted>>

Next ==
    \/ ForNext
    \/ ForExit
    \/ UpdateH_r
    \/ UpdateH_phi
    \/ UpdateE_z
    \/ Source
    \/ Plot
    \/ NoPlot

(* The runs of the script with a valid configuration.                      *)
Spec == Init(ValidConfigs) /\ [][Next]_vars

(* The runs with any configuration, valid or not.                          *)
SpecAnyConfig == Init(AnyConfigs) /\ [][Next]_vars

----------------------------------------------------------------------------
(* Properties                                                              *)

Cells(A) == { <<i, j>> : i \in DOMAIN A, j \in Idx(SIZE_PHI) }
AllZero(A) == \A c \in Cells(A) : A[c[1]][c[2]] = Zero
IsFinite(a) == a.k = "fin"
AllFinite(A) == \A c \in Cells(A) : IsFinite(A[c[1]][c[2]])
(* The array with its first column appended, as a plot receives it.        *)
Closed(A) == hstack(A, Cols(A, 0, 1))

(* C1: in every cycle the sub-steps run in the order H_r, H_phi, E_z,      *)
(* source, plot (the plot only when t is a multiple of 5).  E_z is not     *)
(* written between the source step of one cycle and the E_z step of the    *)
(* next, so both H updates read E_z as the previous cycle's injection left *)
(* it; the E_z update reads the H_r and H_phi of the state it runs in,     *)
(* written by the two steps before it in the same cycle; the injection     *)
(* adds the profile value to the source cell of the updated E_z; and a     *)
(* plot is given the E_z that holds the injection of its own cycle.        *)
C1_StepOrder ==
    [][ /\ pc = "for" =>
              /\ pc' \in {"H_r", "done"}
              /\ E_z' = E_z /\ H_r' = H_r /\ H_phi' = H_phi
        /\ pc = "H_r" =>
              /\ pc' = "H_phi" /\ t' = t
              /\ E_z' = E_z /\ H_phi' = H_phi
              /\ H_r' = Add(Mul(cH_r_H, H_r), Mul(cH_r_E_z, delta_E_z))
        /\ pc = "H_phi" =>
              /\ pc' = "E_z" /\ t' = t
              /\ E_z' = E_z /\ H_r' = H_r
              /\ H_phi' = Add(Mul(cH_phi_H, H_phi),
                              Mul(cH_phi_E_z,
                                  Sub(Rows(E_z, 1, SIZE_R), Rows(E_z, 0, SIZE_R - 1))))
        /\ pc = "E_z" =>
              /\ pc' = "source" /\ t' = t
              /\ H_r' = H_r /\ H_phi' = H_phi
              /\ Rows(E_z', 1, SIZE_R - 1) = NewE_z(delta_H_r(H_r), H_phi)
        /\ pc = "source" =>
              /\ pc' = "plot" /\ t' = t
              /\ H_r' = H_r /\ H_phi' = H_phi
              /\ \A c \in Cells(E_z) :
                    E_z'[c[1]][c[2]] =
                        IF c = src THEN FAdd(E_z[c[1]][c[2]], SourceValue(t))
                        ELSE E_z[c[1]][c[2]]
        /\ pc = "plot" =>
              /\ pc' = "for" /\ t' = t
              /\ E_z' = E_z /\ H_r' = H_r /\ H_phi' = H_phi
              /\ IF t % 5 = 0
                 THEN plotted' = [t |-> t, H_r |-> Closed(H_r),
                                  H_phi |-> Closed(H_phi), E_z |-> Closed(E_z)]
                 ELSE plotted' = plotted
      ]_vars

(* A plot was taken in cycle 5 and the H updates of cycle 6 have read the  *)
(* E_z it showed, which holds a non-zero source cell.                      *)
C1_Witness ==
    /\ pc = "E_z" /\ t = 6 /\ plotted.t = 5
    /\ profile = "gaussian"
    /\ plotted.E_z = Closed(E_z)
    /\ E_z[src[1]][src[2]] # Zero
    /\ ~AllZero(H_r) /\ ~AllZero(H_phi)

(* C2: the H_r update computes, for every row i and column j,              *)
(* H_r[i,j] = cH_r_H[i,j]*H_r[i,j]                                         *)
(*            + cH_r_E_z[i,j]*(E_z[i,(j+1) mod SIZE_PHI] - E_z[i,j]),      *)
(* so the last column takes E_z[i,0] as its next neighbour.                *)
C2_H_rPeriodic ==
    [][ pc = "H_r" =>
          \A i \in Idx(SIZE_R), j \in Idx(SIZE_PHI) :
              H_r'[i][j] =
                  FAdd(FMul(cH_r_H[i][j], H_r[i][j]),
                       FMul(cH_r_E_z[i][j],
                            FSub(E_z[i][(j + 1) % SIZE_PHI], E_z[i][j])))
      ]_vars

(* The H_r update has just run on a row whose first and last E_z values    *)
(* differ, and the last column of H_r differs from the other columns.      *)
C2_Witness ==
    /\ pc = "H_phi"
    /\ \E i \in Idx(SIZE_R) :
          /\ E_z[i][0] # E_z[i][SIZE_PHI - 1]
          /\ H_r[i][SIZE_PHI - 1] # Zero
          /\ H_r[i][SIZE_PHI - 1] # H_r[i][0]

(* C3: the E_z update leaves row 0 and row SIZE_R-1 of E_z as they were,   *)
(* and no step but the source injection changes either row.                *)
C3_BoundaryFreeze ==
    [][ /\ pc = "E_z" =>
              /\ E_z'[0] = E_z[0]
              /\ E_z'[SIZE_R - 1] = E_z[SIZE_R - 1]
        /\ (E_z'[0] # E_z[0] \/ E_z'[SIZE_R - 1] # E_z[SIZE_R - 1]) =>
              pc = "source"
      ]_vars

(* The E_z update has just run with a non-zero value in row 0 (the source  *)
(* at r = 0) and non-zero values in the interior row next to it.           *)
C3_Witness ==
    /\ pc = "source" /\ t >= 2
    /\ E_z[0][src[2]] # Zero
    /\ E_z[1][src[2]] # Zero
    /\ \A j \in Idx(SIZE_PHI) : E_z[SIZE_R - 1][j] = Zero

(* C4: with the zero source profile and the three fields initialised to    *)
(* zero, every cell of E_z, H_r and H_phi is zero in every state of the    *)
(* run, whatever the number of cycles.                                     *)
C4_ZeroStaysZero ==
    profile = "zero" => AllZero(E_z) /\ AllZero(H_r) /\ AllZero(H_phi)

(* The run with the zero profile has finished all its cycles.              *)
C4_Witness ==
    /\ profile = "zero" /\ pc = "done" /\ t = MAXTIME - 1
    /\ AllZero(E_z)

(* C5: once the first cycle has injected the source (t = 1), H_r and H_phi *)
(* are zero everywhere and E_z is zero everywhere but at the source cell,  *)
(* where it is the profile value of step 1.                                *)
C5_FirstCycle ==
    (t = 1 /\ pc \in {"plot", "for"}) =>
        /\ AllZero(H_r)
        /\ AllZero(H_phi)
        /\ \A c \in Cells(E_z) :
              E_z[c[1]][c[2]] = IF c = src THEN SourceValue(1) ELSE Zero

(* The first cycle is over with the Gaussian source at the script's cell,  *)
(* which holds a non-zero value.                                           *)
C5_Witness ==
    /\ t = 1 /\ pc = "for"
    /\ profile = "gaussian" /\ src = SourceCell
    /\ E_z[src[1]][src[2]] # Zero

(* C6: the scale factor of row r = 0 and what is derived from it (row 0 of *)
(* cH_r_E_z, the backward average of row 1) are computed from the true     *)
(* radius 0 of that row, not from the 0.000001 substituted for plotting.   *)
C6_PhysicsUsesTrueRadius ==
    \A j \in Idx(SIZE_PHI) :
        /\ h_phi[0][j] = FromInt(0)
        /\ cH_r_E_z[0][j] =
              FDiv(FromInt(-delta_t),
                   FMul(FMul(FMul(FromInt(MU0), FromInt(delta_phi)), FromInt(0)),
                        One))
        /\ E_z_h_phi_bwd_avg[0][j] =
              FDiv(FAdd(FromInt(1), FromInt(0)), FromInt(2))

(* A configuration the specification calls invalid; the full circle is     *)
(* SIZE_PHI cells of 2 degrees (line 15).                                  *)
InvalidConfig ==
    \/ EPSILON0 <= 0
    \/ MU0 <= 0
    \/ delta_r <= 0
    \/ delta_phi <= 0
    \/ delta_t <= 0
    \/ \E c \in Cells(h_phi) :
          ~IsFinite(h_phi[c[1]][c[2]]) \/ h_phi[c[1]][c[2]].m <= 0
    \/ SIZE_PHI * delta_phi # 2 * SIZE_PHI

(* C7: a configuration with a non-positive permittivity, permeability,     *)
(* h_phi value or step size, or whose cells do not span the full circle    *)
(* (2 degrees per cell), never enters the loop, and the loop never runs    *)
(* with a non-finite coefficient.                                          *)
C7_InvalidConfigRejected ==
    /\ InvalidConfig => (t = 0 /\ pc = "for")
    /\ t >= 1 =>
          /\ AllFinite(cH_r_E_z) /\ AllFinite(cH_phi_E_z)
          /\ AllFinite(cE_z_H_phi) /\ AllFinite(cE_z_H_r)

(* How far the run has got: 6 positions in each cycle.                     *)
Position ==
    CASE pc = "H_r" -> 0
      [] pc = "H_phi" -> 1
      [] pc = "E_z" -> 2
      [] pc = "source" -> 3
      [] pc = "plot" -> 4
      [] pc = "for" -> 5
      [] pc = "done" -> 6
Progress == 6 * t + Position

(* C8: the loop runs its cycles with t = 1, 2, ..., MAXTIME-1 in that      *)
(* order and then ends: every cycle step runs with t in 1 .. MAXTIME-1; t  *)
(* changes only when a cycle starts, and then by one; the run is over only *)
(* with t = MAXTIME-1 and nothing happens after it; and every step moves   *)
(* the run forward (Progress, which is bounded, grows), so the run cannot  *)
(* go on for ever.                                                         *)
C8_LoopCount ==
    /\ [](/\ pc \in {"H_r", "H_phi", "E_z", "source", "plot"} =>
                t \in 1 .. (MAXTIME - 1)
          /\ pc = "done" => t = MAXTIME - 1
          /\ Progress <= 6 * MAXTIME)
    /\ [][ /\ (pc = "for" /\ pc' = "H_r") => t' = t + 1
           /\ t' # t => (pc = "for" /\ pc' = "H_r")
           /\ pc # "done"
           /\ Progress' > Progress ]_vars

(* The run has ended after the last cycle.                                 *)
C8_Witness ==
    /\ pc = "done" /\ t = MAXTIME - 1
    /\ profile = "gaussian" /\ ~AllZero(H_phi)

(* C9: the E_z update computes, for every interior row i in 1 .. SIZE_R-2  *)
(* and every column j,                                                     *)
(* E_z[i,j] = cE_z_E*E_z[i,j]                                              *)
(*   + cE_z_H_phi*(fwd_avg*H_phi[i,j] - bwd_avg*H_phi[i-1,j])              *)
(*   + cE_z_H_r*(H_r[i,j] - H_r[i,(j-1) mod SIZE_PHI]),                    *)
(* the coefficient arrays holding row i at their row i-1.                  *)
C9_E_zUpdate ==
    [][ pc = "E_z" =>
          \A i \in 1 .. (SIZE_R - 2), j \in Idx(SIZE_PHI) :
              E_z'[i][j] =
                  FAdd(FAdd(FMul(cE_z_E[i - 1][j], E_z[i][j]),
                            FMul(cE_z_H_phi[i - 1][j],
                                 FSub(FMul(E_z_h_phi_fwd_avg[i - 1][j], H_phi[i][j]),
                                      FMul(E_z_h_phi_bwd_avg[i - 1][j],
                                           H_phi[i - 1][j])))),
                       FMul(cE_z_H_r[i - 1][j],
                            FSub(H_r[i][j], H_r[i][(j + SIZE_PHI - 1) % SIZE_PHI])))
      ]_vars

(* The E_z update has just run with H_r differing across the wrap, and     *)
(* with non-zero H_phi on both sides of an interior row.                   *)
C9_Witness ==
    /\ pc = "source"
    /\ \E i \in 1 .. (SIZE_R - 2) :
          /\ H_r[i][0] # H_r[i][SIZE_PHI - 1]
          /\ H_phi[i][0] # Zero /\ H_phi[i - 1][0] # Zero
          /\ E_z[i][0] # Zero

(* The interior rows; an array with zero edge rows; an array with its edge *)
(* rows overwritten by nan.                                                *)
Interior == 1 .. (SIZE_R - 2)
EdgeRowsZero(A) ==
    \A j \in Idx(SIZE_PHI) : A[0][j] = Zero /\ A[SIZE_R - 1][j] = Zero
EdgesPoisoned(A) ==
    [i \in DOMAIN A |-> IF i \in Interior THEN A[i] ELSE [j \in DOMAIN A[i] |-> NaN]]

(* C10: with the source cell strictly inside the radial range, rows 0 and  *)
(* SIZE_R-1 of E_z and of H_r are zero in every state: the row-0           *)
(* coefficient of cH_r_E_z only multiplies a zero difference.  And the E_z *)
(* update does not read rows 0 and SIZE_R-1 of H_r: it gives the same E_z  *)
(* with those rows replaced by nan.                                        *)
C10_EdgeRows ==
    /\ [](src[1] \in Interior =>
            /\ EdgeRowsZero(E_z)
            /\ EdgeRowsZero(H_r)
            /\ \A j \in Idx(SIZE_PHI) : delta_E_z[0][j] = Zero)
    /\ [][ pc = "E_z" =>
             E_z' = AssignRows(E_z, 1, SIZE_R - 1,
                               NewE_z(delta_H_r(EdgesPoisoned(H_r)), H_phi))
         ]_vars

(* The source is inside, the run has ended, and the rows next to the two   *)
(* edges hold non-zero E_z and H_r values.                                 *)
C10_Witness ==
    /\ src[1] \in Interior /\ pc = "done"
    /\ cH_r_E_z[0][0] # Zero
    /\ \E j \in Idx(SIZE_PHI) : E_z[1][j] # Zero /\ H_r[1][j] # Zero
    /\ \E j \in Idx(SIZE_PHI) : E_z[SIZE_R - 2][j] # Zero /\ H_r[SIZE_R - 2][j] # Zero

====
